---- MODULE Spec2Model ----
(***************************************************************************)
(* Model of the bulk image generator (src/components/BulkGenerator.tsx)    *)
(* and of the generation client it calls (src/unnamed/part_001).           *)
(*                                                                         *)
(* Strings are sequences of one-character strings, so that trimming,       *)
(* sanitizing and concatenation are computed character by character.       *)
(* Fixed message texts are kept as single multi-character chunks.          *)
(*                                                                         *)
(* React state (useState) is modelled by its logical value: the value the  *)
(* queued updates reduce to.  Every updater of the component is a pure     *)
(* function of the previous state except the last one of a run (line 119), *)
(* which reads abortRef when it is evaluated; its evaluation time is       *)
(* modelled explicitly (see FinalAction).                                  *)
(*                                                                         *)
(* A JavaScript continuation runs to its next await without interleaving,  *)
(* so one action is the code between two awaits.                           *)
(***************************************************************************)
EXTENDS Integers, Sequences, FiniteSets, TLC

\* ------------------------------------------------------------------ bounds

MaxRows == 2
MaxClicks == 3
LogCap == 50

\* ----------------------------------------------------------------- strings

Letters ==
  {"a","b","c","d","e","f","g","h","i","j","k","l","m",
   "n","o","p","q","r","s","t","u","v","w","x","y","z",
   "A","B","C","D","E","F","G","H","I","J","K","L","M",
   "N","O","P","Q","R","S","T","U","V","W","X","Y","Z"}

DigitChars == {"0","1","2","3","4","5","6","7","8","9"}

\* the characters \s of a regular expression matches and trim() strips
WhiteSpace == {" ", "\t", "\n", "\r"}

DigitChar(d) ==
  CASE d = 0 -> "0" [] d = 1 -> "1" [] d = 2 -> "2" [] d = 3 -> "3"
    [] d = 4 -> "4" [] d = 5 -> "5" [] d = 6 -> "6" [] d = 7 -> "7"
    [] d = 8 -> "8" [] d = 9 -> "9"

RECURSIVE NumberToString(_)
\* String(n) and `${n}` for a non-negative integer
NumberToString(n) ==
  IF n < 10 THEN <<DigitChar(n)>>
  ELSE NumberToString(n \div 10) \o <<DigitChar(n % 10)>>

RECURSIVE TrimStart(_)
TrimStart(s) ==
  IF s # <<>> /\ Head(s) \in WhiteSpace THEN TrimStart(Tail(s)) ELSE s

RECURSIVE TrimEnd(_)
TrimEnd(s) ==
  IF s # <<>> /\ s[Len(s)] \in WhiteSpace
  THEN TrimEnd(SubSeq(s, 1, Len(s) - 1)) ELSE s

\* mutant: nothing is trimmed
TrimNothing(s) == s

\* String.prototype.trim
Trim(s) == TrimEnd(TrimStart(s))

\* ------------------------------------------------------------- cell values

\* ExcelRow values are string | number | boolean; a key a row lacks reads
\* as undefined.
Str(s) == [t |-> "string", s |-> s, n |-> 0, b |-> FALSE]
Num(n) == [t |-> "number", s |-> <<>>, n |-> n, b |-> FALSE]
Bool(b) == [t |-> "boolean", s |-> <<>>, n |-> 0, b |-> b]
Undefined == [t |-> "undefined", s |-> <<>>, n |-> 0, b |-> FALSE]

\* JavaScript truthiness, as the || operator tests it
Truthy(v) ==
  CASE v.t = "string" -> v.s # <<>>
    [] v.t = "number" -> v.n # 0
    [] v.t = "boolean" -> v.b
    [] OTHER -> FALSE

\* String(v)
JsString(v) ==
  CASE v.t = "string" -> v.s
    [] v.t = "number" -> NumberToString(v.n)
    [] v.t = "boolean" -> IF v.b THEN <<"t","r","u","e">> ELSE <<"f","a","l","s","e">>
    [] OTHER -> <<"u","n","d","e","f","i","n","e","d">>

\* row[column]
Cell(row, column) == IF column \in DOMAIN row THEN row[column] ELSE Undefined

\* a || b
Or(v, w) == IF Truthy(v) THEN v ELSE w

\* ------------------------------------------------------------ spreadsheets

\* column order of the uploaded sheet; sheet_to_json leaves an empty cell
\* out of its row object
SheetColumns == <<"desc", "sku">>

Rows ==
  { [desc |-> Str(<<"a">>), sku |-> Str(<<"A", "!">>)],
    [sku |-> Str(<<"A", "!">>)],
    [desc |-> Num(7), sku |-> Str(<<" ">>)] }

\* what XLSX.utils.sheet_to_json can return: the rows of the first sheet
Sheets == UNION { [1..n -> Rows] : n \in 0..MaxRows }

\* Object.keys(row), in column order
ObjectKeys(row) == SelectSeq(SheetColumns, LAMBDA c : c \in DOMAIN row)

\* h.toLowerCase().includes('name') || ...includes('sku') || ...includes('id')
LooksLikeName(h) == h \in {"sku"}

RECURSIVE FindNameColumn(_)
\* extractedHeaders.find(h => ...); "" stands for undefined
FindNameColumn(hs) ==
  IF hs = <<>> THEN ""
  ELSE IF LooksLikeName(Head(hs)) THEN Head(hs) ELSE FindNameColumn(Tail(hs))

FileName == "products.xlsx"

Baselines == { <<>>, <<"s", "t">> }

DefaultBaseline ==
  <<"Professional product photography, studio lighting, white background, 4k">>

\* ---------------------------------------------------- generation client

TextPart == [hasInlineData |-> FALSE, data |-> "", mimeType |-> ""]
ImagePart(mimeType, data) ==
  [hasInlineData |-> TRUE, data |-> data, mimeType |-> mimeType]
Candidate(parts) == [hasContent |-> TRUE, hasParts |-> TRUE, parts |-> parts]

\* responses of ai.models.generateContent
Responses ==
  { [hasCandidates |-> FALSE, candidates |-> <<>>],
    [hasCandidates |-> TRUE, candidates |-> <<>>],
    [hasCandidates |-> TRUE, candidates |-> <<Candidate(<<TextPart>>)>>],
    [hasCandidates |-> TRUE,
     candidates |-> <<[hasContent |-> FALSE, hasParts |-> FALSE, parts |-> <<>>]>>],
    [hasCandidates |-> TRUE,
     candidates |-> <<Candidate(<<TextPart, ImagePart("", "QUJD")>>)>>],
    [hasCandidates |-> TRUE,
     candidates |-> <<Candidate(<<ImagePart("image/jpeg", "REVG"), ImagePart("", "QUJD")>>)>>],
    [hasCandidates |-> TRUE,
     candidates |-> <<Candidate(<<ImagePart("image/jpeg", "")>>),
                      Candidate(<<ImagePart("", "QUJD")>>)>>] }

Null == <<>>

RECURSIVE FirstInline(_)
\* the for loop of extractImageFromResponse
FirstInline(parts) ==
  IF parts = <<>> THEN Null
  ELSE LET part == Head(parts) IN
       IF part.hasInlineData /\ part.data # ""
       THEN <<"data:", IF part.mimeType # "" THEN part.mimeType ELSE "image/png",
              ";base64,", part.data>>
       ELSE FirstInline(Tail(parts))

\* mutant: the candidate examined is the last one
extractFromLastCandidate(response) ==
  IF ~response.hasCandidates \/ Len(response.candidates) = 0 THEN Null
  ELSE LET content == response.candidates[Len(response.candidates)] IN
       IF ~content.hasContent \/ ~content.hasParts THEN Null
       ELSE FirstInline(content.parts)

\* part_001 lines 29-42
extractImageFromResponse(response) ==
  IF ~response.hasCandidates \/ Len(response.candidates) = 0 THEN Null
  ELSE LET content == response.candidates[1] IN
       IF ~content.hasContent \/ ~content.hasParts THEN Null
       ELSE FirstInline(content.parts)

NoImageError ==
  "Error: No image generated. The model might have returned only text."
TransportError == "Error: request failed"

NoResponse == [hasCandidates |-> FALSE, candidates |-> <<>>]

\* what the remote call can do: it throws, or it returns a response
AllReplies == {[threw |-> TRUE, response |-> NoResponse]}
              \cup {[threw |-> FALSE, response |-> r] : r \in Responses}

\* the replies the bulk pipeline is run against: the call throws, returns
\* text only, or returns an image
Replies ==
  { [threw |-> TRUE, response |-> NoResponse],
    [threw |-> FALSE,
     response |-> [hasCandidates |-> TRUE, candidates |-> <<Candidate(<<TextPart>>)>>]],
    [threw |-> FALSE,
     response |-> [hasCandidates |-> TRUE,
                   candidates |-> <<Candidate(<<TextPart, ImagePart("", "QUJD")>>)>>]] }

\* generateImageWithGemini: [ok, url, err]
generateImageWithGemini(reply) ==
  IF reply.threw THEN [ok |-> FALSE, url |-> Null, err |-> TransportError]
  ELSE LET imageUrl == extractImageFromResponse(reply.response) IN
       IF imageUrl = Null THEN [ok |-> FALSE, url |-> Null, err |-> NoImageError]
       ELSE [ok |-> TRUE, url |-> imageUrl, err |-> ""]

\* ------------------------------------------------------------------- state

VARIABLES
  excelData,       \* useState<ExcelRow[]>
  headers,         \* useState<string[]>
  promptColumn,    \* useState<string>
  filenameColumn,  \* useState<string>
  baselinePrompt,  \* useState<string>
  status,          \* useState<ProcessingStatus>
  results,         \* useState<GeneratedImage[]>
  logs,            \* useState<string[]>, most recent first
  abortRef,        \* useRef<boolean>
  tasks,           \* activations of handleStartBulkGeneration suspended at the await
  trace,           \* history: what the latest run did with each row it reached
  job,             \* history: the closure of the latest run
  stopRow,         \* history: row in flight at the first stop request of the latest run, or -1
  exit,            \* history: how the loop of the latest run ended
  runNo,           \* history: number of runs started
  clicks,          \* number of user events handled
  lab,             \* the name under test of SpecSanitize
  zip,             \* the archive downloadAllAsZip builds
  client,          \* the call under test of SpecClient
  editor           \* the state of the ImageEditor component and its activations

vars == <<excelData, headers, promptColumn, filenameColumn, baselinePrompt,
          status, results, logs, abortRef, tasks, trace, job, stopRow, exit,
          runNo, clicks, lab, zip, client, editor>>

aux == <<zip, client, editor>>

view == <<excelData, headers, promptColumn, filenameColumn, baselinePrompt>>
history == <<trace, job, stopRow, exit, runNo>>

Min(a, b) == IF a < b THEN a ELSE b

\* addLog: [msg, ...prev].slice(0, 50)
addLog(prev, msg) == SubSeq(<<msg>> \o prev, 1, Min(LogCap, Len(prev) + 1))

Stopped == <<"Stopped">>
Completed == <<"Completed!">>

\* `image-${i}`
ImageName(i) == <<"i", "m", "a", "g", "e", "-">> \o NumberToString(i)

\* productName.replace(/[^a-z0-9_\-\s]/gi, '_')
ReplaceUnsafe(name) ==
  [k \in 1..Len(name) |->
     IF name[k] \in Letters \cup DigitChars \cup {"_", "-"} \cup WhiteSpace
     THEN name[k] ELSE "_"]

\* mutant: the fallback name carries the extension
FallbackNameWithExtension(i) == ImageName(i) \o <<".", "p", "n", "g">>

\* the fallback of line 100
FallbackName(i) == ImageName(i)

\* productName.replace(...).trim() || `image-${i}`
SafeFileName(productName, i) ==
  LET trimmed == Trim(ReplaceUnsafe(productName)) IN
  IF trimmed # <<>> THEN trimmed ELSE FallbackName(i)

\* mutant: the separator is added without looking at the baseline
FullPromptAlwaysPrefixed(baseline, productPrompt) ==
  baseline \o <<".", " ">> \o productPrompt

\* baselinePrompt ? `${baselinePrompt}. ${productPrompt}` : productPrompt
FullPrompt(baseline, productPrompt) ==
  IF baseline # <<>> THEN baseline \o <<".", " ">> \o productPrompt
  ELSE productPrompt

\* String(row[promptColumn] || '')
ProductPrompt(row, column) == JsString(Or(Cell(row, column), Str(<<>>)))

\* String(row[filenameColumn] || `image-${i}`)
ProductName(row, column, i) == JsString(Or(Cell(row, column), Str(ImageName(i))))

\* mutant: a row is counted twice
CountRowTwice(st) == [st EXCEPT !.completed = @ + 2]

\* setStatus(prev => ({ ...prev, completed: prev.completed + 1 }))
CountRow(st) == [st EXCEPT !.completed = @ + 1]

\* mutant: the loop never looks at the cancellation flag
AbortIgnored(flag) == FALSE

\* the test of line 74
AbortRequested(flag) == flag

\* mutant: the skip path forgets to count the row
SkipRowNoCount(s, i) ==
  [s EXCEPT !.logs = addLog(@, <<"Skipping row ">> \o NumberToString(i + 1)
                                  \o <<": Empty prompt">>),
            !.trace = Append(@, [row |-> i, prompt |-> <<>>, outcome |-> "skipped"])]

\* lines 83-87: the row is skipped
SkipRow(s, i) ==
  [s EXCEPT !.logs = addLog(@, <<"Skipping row ">> \o NumberToString(i + 1)
                                  \o <<": Empty prompt">>),
            !.status = CountRow(@),
            !.trace = Append(@, [row |-> i, prompt |-> <<>>, outcome |-> "skipped"])]

\* the value the updater of line 119 computes: it reads abortRef when React
\* evaluates it, which is inside the setStatus call when the update is
\* processed synchronously, and at the next render, after line 120 has run,
\* when the update is batched
FinalAction(atCall, flag) ==
  IF (IF atCall THEN flag ELSE FALSE) THEN Stopped ELSE Completed

\* lines 119-120
Finish(s, atCall) ==
  [s EXCEPT !.status = [@ EXCEPT !.isProcessing = FALSE,
                                 !.currentAction = FinalAction(atCall, s.abortRef)],
            !.abortRef = FALSE]

\* mutant: the loop reads the state of the latest render
RunConfigLive(t) ==
  [excelData |-> excelData, promptColumn |-> promptColumn,
   filenameColumn |-> filenameColumn, baselinePrompt |-> baselinePrompt]

\* lines 65-97: excelData, promptColumn, filenameColumn and baselinePrompt are
\* the constants of the render whose handler was invoked; activation t keeps
\* reading them however the component is rendered afterwards
RunConfig(t) ==
  [excelData |-> t.excelData, promptColumn |-> t.promptColumn,
   filenameColumn |-> t.filenameColumn, baselinePrompt |-> t.baselinePrompt]

\* lines 89-97: the request of row i is issued and the activation suspends
IssueRequest(t, i, s, productPrompt, productName) ==
  LET fullPrompt == FullPrompt(RunConfig(t).baselinePrompt, productPrompt) IN
  [s EXCEPT !.status = [@ EXCEPT !.currentAction = <<"Generating: ">> \o productName],
            !.tasks = Append(@, [t EXCEPT !.i = i, !.productName = productName,
                                          !.fullPrompt = fullPrompt]),
            !.trace = Append(@, [row |-> i, prompt |-> fullPrompt, outcome |-> "pending"])]

RECURSIVE RowLoop(_, _, _, _)
\* lines 73-117, from the test of iteration i to the next await or to the end
\* of the function
RowLoop(t, i, s, atCall) ==
  IF i < Len(RunConfig(t).excelData) THEN
    IF AbortRequested(s.abortRef)
    THEN Finish([s EXCEPT !.logs = addLog(@, <<"Process stopped by user.">>),
                          !.exit = "stopped"], atCall)
    ELSE LET row == RunConfig(t).excelData[i + 1]
             productPrompt == ProductPrompt(row, RunConfig(t).promptColumn)
             productName == ProductName(row, RunConfig(t).filenameColumn, i)
         IN IF Trim(productPrompt) = <<>>
            THEN RowLoop(t, i + 1, SkipRow(s, i), atCall)
            ELSE IssueRequest(t, i, s, productPrompt, productName)
  ELSE Finish([s EXCEPT !.exit = "exhausted"], atCall)

\* the mutable state a continuation works on
Mutable ==
  [status |-> status, results |-> results, logs |-> logs, abortRef |-> abortRef,
   tasks |-> tasks, trace |-> trace, exit |-> exit]

Commit(s) ==
  /\ status' = s.status
  /\ results' = s.results
  /\ logs' = s.logs
  /\ abortRef' = s.abortRef
  /\ tasks' = s.tasks
  /\ trace' = s.trace
  /\ exit' = s.exit

\* no run has been started
NoJob ==
  [excelData |-> <<>>, promptColumn |-> "", filenameColumn |-> "",
   baselinePrompt |-> <<>>]

NoLab == [stage |-> "off", cell |-> Undefined, i |-> 0, fileName |-> <<>>, again |-> <<>>]

InitBulk ==
  /\ excelData = <<>>
  /\ headers = <<>>
  /\ promptColumn = ""
  /\ filenameColumn = ""
  /\ baselinePrompt = DefaultBaseline
  /\ status = [total |-> 0, completed |-> 0, isProcessing |-> FALSE, currentAction |-> <<>>]
  /\ results = <<>>
  /\ logs = <<>>
  /\ abortRef = FALSE
  /\ tasks = <<>>
  /\ trace = <<>>
  /\ job = NoJob
  /\ stopRow = -1
  /\ exit = "none"
  /\ runNo = 0
  /\ clicks = 0

\* no archive has been built
NoZip == [stage |-> "off", names |-> <<>>, entries |-> <<>>, files |-> <<>>]

\* no call is under test
NoClient == [stage |-> "off", op |-> "", reply |-> [threw |-> TRUE, response |-> NoResponse],
             out |-> [ok |-> FALSE, url |-> Null, err |-> ""]]

\* part_000 lines 8-13: the initial state of the ImageEditor
NoEditor ==
  [sourceImage |-> "", sourceFile |-> "", generatedImage |-> Null, prompt |-> <<>>,
   isProcessing |-> FALSE, error |-> "",
   readers |-> <<>>,  \* files whose FileReader of handleFileSelect or handleDrop is reading
   tasks |-> <<>>,    \* activations of handleGenerate suspended at an await
   started |-> 0,     \* history: number of activations that passed the guard
   shown |-> 0,       \* history: the activation generatedImage comes from, or 0
   shownAt |-> 0,     \* history: the value of started when generatedImage was set
   events |-> 0]      \* number of user events handled

InitAux ==
  /\ zip = NoZip
  /\ client = NoClient
  /\ editor = NoEditor

Init == InitBulk /\ lab = NoLab /\ InitAux

\* ----------------------------------------------------------------- actions

\* lines 188-202: the file input is rendered only while no rows are loaded
UploadShown == Len(excelData) = 0

\* lines 203-234: Reset and the column selects are rendered once rows are loaded
DataShown == Len(excelData) # 0

\* mutant: the Start button stays rendered during a run
StartAlwaysShown == TRUE

\* line 255: the Start button is rendered while no run is in progress
StartShown == ~status.isProcessing

\* line 258: disabled={!excelData.length}
StartDisabled == Len(excelData) = 0

\* line 263: otherwise the Stop button is rendered
StopShown == status.isProcessing

\* lines 26-56: reader.onload with the parsed sheet, or with
\* a file XLSX.read throws on
UploadFrom(sheets) ==
  /\ UploadShown
  /\ clicks < MaxClicks
  /\ clicks' = clicks + 1
  /\ \E parsed \in BOOLEAN, data \in sheets :
       /\ parsed \/ data = <<>>
       /\ IF ~parsed
          THEN /\ logs' = addLog(logs, <<"Error parsing Excel file. Please ensure it is a valid .xlsx or .csv">>)
               /\ UNCHANGED view
          ELSE IF Len(data) > 0
          THEN LET extractedHeaders == ObjectKeys(data[1])
                   found == FindNameColumn(extractedHeaders)
               IN /\ headers' = extractedHeaders
                  /\ excelData' = data
                  /\ promptColumn' = extractedHeaders[1]
                  /\ filenameColumn' = IF found # "" THEN found ELSE extractedHeaders[1]
                  /\ baselinePrompt' = baselinePrompt
                  /\ logs' = addLog(logs, <<"Loaded ">> \o NumberToString(Len(data))
                                          \o <<" rows from ", FileName>>)
          ELSE UNCHANGED <<view, logs>>
  /\ UNCHANGED <<status, results, abortRef, tasks, history, lab, aux>>

\* lines 26-56 for the sheets of the bulk pipeline
handleFileUpload == UploadFrom(Sheets)

\* line 207: onClick of Reset
resetData ==
  /\ DataShown
  /\ clicks < MaxClicks
  /\ clicks' = clicks + 1
  /\ excelData' = <<>>
  /\ results' = <<>>
  /\ UNCHANGED <<headers, promptColumn, filenameColumn, baselinePrompt, status,
                 logs, abortRef, tasks, history, lab, aux>>

\* line 216: onChange of the prompt column select
setPromptColumn ==
  /\ DataShown
  /\ clicks < MaxClicks
  /\ clicks' = clicks + 1
  /\ \E h \in {headers[k] : k \in 1..Len(headers)} : promptColumn' = h
  /\ UNCHANGED <<excelData, headers, filenameColumn, baselinePrompt, status,
                 results, logs, abortRef, tasks, history, lab, aux>>

\* line 227: onChange of the filename column select
setFilenameColumn ==
  /\ DataShown
  /\ clicks < MaxClicks
  /\ clicks' = clicks + 1
  /\ \E h \in {headers[k] : k \in 1..Len(headers)} : filenameColumn' = h
  /\ UNCHANGED <<excelData, headers, promptColumn, baselinePrompt, status,
                 results, logs, abortRef, tasks, history, lab, aux>>

\* line 249: onChange of the baseline prompt textarea
setBaselinePrompt ==
  /\ clicks < MaxClicks
  /\ clicks' = clicks + 1
  /\ \E b \in Baselines : baselinePrompt' = b
  /\ UNCHANGED <<excelData, headers, promptColumn, filenameColumn, status,
                 results, logs, abortRef, tasks, history, lab, aux>>

\* lines 58-63
stopGeneration ==
  /\ StopShown
  /\ clicks < MaxClicks
  /\ clicks' = clicks + 1
  /\ IF status.isProcessing
     THEN /\ abortRef' = TRUE
          /\ logs' = addLog(logs, <<"Stopping generation after current item finishes...">>)
          /\ stopRow' = IF stopRow = -1 /\ tasks # <<>> THEN tasks[Len(tasks)].i ELSE stopRow
     ELSE UNCHANGED <<abortRef, logs, stopRow>>
  /\ UNCHANGED <<view, status, results, tasks, trace, job, exit, runNo, lab, aux>>

\* mutant: the guard looks at the row list only
NothingToStartRowsOnly(data, promptCol, filenameCol) == Len(data) = 0

\* line 66: !excelData.length || !promptColumn || !filenameColumn
NothingToStart(data, promptCol, filenameCol) ==
  Len(data) = 0 \/ promptCol = "" \/ filenameCol = ""

\* lines 68-71
BeginRun(s, n) ==
  [s EXCEPT !.abortRef = FALSE,
            !.status = [total |-> n, completed |-> 0, isProcessing |-> TRUE,
                        currentAction |-> <<>>],
            !.results = <<>>,
            !.logs = addLog(@, <<"Starting bulk generation...">>),
            !.trace = <<>>,
            !.exit = "running"]

\* lines 65-97, up to the first await (or to its
\* end when every row is skipped); it runs inside the click event, where
\* React batches the updates
StartHandler ==
  /\ IF NothingToStart(excelData, promptColumn, filenameColumn)
     THEN UNCHANGED <<status, results, logs, abortRef, tasks, history>>
     ELSE LET t == [excelData |-> excelData, promptColumn |-> promptColumn,
                    filenameColumn |-> filenameColumn,
                    baselinePrompt |-> baselinePrompt,
                    run |-> runNo + 1, i |-> 0, productName |-> <<>>,
                    fullPrompt |-> <<>>]
          IN /\ Commit(RowLoop(t, 0, BeginRun(Mutable, Len(excelData)), FALSE))
             /\ job' = [excelData |-> excelData, promptColumn |-> promptColumn,
                         filenameColumn |-> filenameColumn,
                         baselinePrompt |-> baselinePrompt]
             /\ stopRow' = -1
             /\ runNo' = runNo + 1
  /\ UNCHANGED <<view, lab, aux>>

\* lines 255-262: onClick of the Start button, which is rendered while no run
\* is in progress and enabled once rows are loaded
handleStartBulkGeneration ==
  /\ StartShown
  /\ ~StartDisabled
  /\ clicks < MaxClicks
  /\ clicks' = clicks + 1
  /\ StartHandler

\* mutant: the new image is put in front of the list
RecordSuccessInFront(s, t, imageUrl) ==
  LET safeFileName == SafeFileName(t.productName, t.i)
      newImage == [id |-> <<t.run, t.i>>, url |-> imageUrl, prompt |-> t.fullPrompt,
                   fileName |-> safeFileName, originalName |-> t.productName]
  IN [s EXCEPT !.results = <<newImage>> \o @,
               !.logs = addLog(@, <<"Success: ">> \o t.productName)]

\* lines 99-111: the await returned imageUrl
RecordSuccess(s, t, imageUrl) ==
  LET safeFileName == SafeFileName(t.productName, t.i)
      newImage == [id |-> <<t.run, t.i>>, url |-> imageUrl, prompt |-> t.fullPrompt,
                   fileName |-> safeFileName, originalName |-> t.productName]
  IN [s EXCEPT !.results = Append(@, newImage),
               !.logs = addLog(@, <<"Success: ">> \o t.productName)]

\* mutant: a failed row ends the run
RecordFailureAndAbort(s, t, err) ==
  [s EXCEPT !.logs = addLog(@, <<"Failed row ">> \o NumberToString(t.i + 1) \o <<" (">>
                                \o t.productName \o <<"): ", err>>),
            !.abortRef = TRUE]

\* lines 112-114: the await threw err
RecordFailure(s, t, err) ==
  [s EXCEPT !.logs = addLog(@, <<"Failed row ">> \o NumberToString(t.i + 1) \o <<" (">>
                                \o t.productName \o <<"): ", err>>)]

Remove(seq, k) == SubSeq(seq, 1, k - 1) \o SubSeq(seq, k + 1, Len(seq))

\* history: the request of activation t has settled
Settle(tr, t, outcome) ==
  [k \in 1..Len(tr) |->
     IF t.run = runNo /\ tr[k].row = t.i THEN [tr[k] EXCEPT !.outcome = outcome]
     ELSE tr[k]]

\* handleStartBulkGeneration resumes at line 97 with the outcome of the
\* request and runs to its next await or to its end, lines 97-120
RequestReturns ==
  \E k \in 1..Len(tasks), reply \in Replies, atCall \in BOOLEAN :
    LET t == tasks[k]
        r == generateImageWithGemini(reply)
        s1 == [Mutable EXCEPT !.tasks = Remove(@, k),
                              !.trace = Settle(@, t, IF r.ok THEN "ok" ELSE "failed")]
        s2 == IF r.ok THEN RecordSuccess(s1, t, r.url) ELSE RecordFailure(s1, t, r.err)
        s3 == [s2 EXCEPT !.status = CountRow(@)]
    IN /\ Commit(RowLoop(t, t.i + 1, s3, atCall))
       /\ UNCHANGED <<view, job, stopRow, runNo, clicks, lab, aux>>

Next ==
  \/ handleFileUpload
  \/ resetData
  \/ setPromptColumn
  \/ setFilenameColumn
  \/ setBaselinePrompt
  \/ handleStartBulkGeneration
  \/ stopGeneration
  \/ RequestReturns

Spec == Init /\ [][Next]_vars

\* ------------------------------------------- the file name of one result

MaxNameLen == 3

NameAlphabet == {"a", "Z", "7", "_", "-", " ", "\t", "!", "."}

Names == UNION { [1..n -> NameAlphabet] : n \in 0..MaxNameLen }

\* values of the filename cell of a row
NameCells == {Undefined, Num(0), Num(12), Bool(FALSE), Bool(TRUE)}
             \cup {Str(name) : name \in Names}

\* row indexes
Indexes == {0, 12}

InitSanitize ==
  /\ InitBulk
  /\ InitAux
  /\ lab \in {[stage |-> "input", cell |-> c, i |-> i, fileName |-> <<>>, again |-> <<>>] :
               c \in NameCells, i \in Indexes}

\* lines 81 and 99-110 for row lab.i with lab.cell in its filename column:
\* the fileName of the result that is stored
StoreName ==
  /\ lab.stage = "input"
  /\ LET row == IF lab.cell.t = "undefined" THEN [desc |-> Str(<<"a">>)]
                ELSE [desc |-> Str(<<"a">>), sku |-> lab.cell]
         t == [excelData |-> <<row>>, promptColumn |-> "desc", filenameColumn |-> "sku",
               baselinePrompt |-> <<>>, run |-> 1, i |-> lab.i,
               productName |-> ProductName(row, "sku", lab.i), fullPrompt |-> <<"a">>]
         stored == RecordSuccess(Mutable, t, <<"data:", "image/png", ";base64,", "QUJD">>).results
     IN lab' = [lab EXCEPT !.stage = "stored", !.fileName = stored[Len(stored)].fileName]
  /\ UNCHANGED <<view, status, results, logs, abortRef, tasks, history, clicks, aux>>

\* line 100 applied to the stored fileName
SanitizeAgain ==
  /\ lab.stage = "stored"
  /\ lab' = [lab EXCEPT !.stage = "again", !.again = SafeFileName(lab.fileName, lab.i)]
  /\ UNCHANGED <<view, status, results, logs, abortRef, tasks, history, clicks, aux>>

NextSanitize ==
  \/ StoreName
  \/ SanitizeAgain

SpecSanitize == InitSanitize /\ [][NextSanitize]_vars

\* ------------------------------------------------ the archive of the results

MaxZipRows == 3

\* values a property of usedNames can read as
Count(n) == [t |-> "number", n |-> n]
NaN == [t |-> "NaN", n |-> 0]
FunctionValue == [t |-> "function", n |-> 0]
PrototypeObject == [t |-> "object", n |-> 0]
Absent == [t |-> "undefined", n |-> 0]

ConstructorName == <<"c", "o", "n", "s", "t", "r", "u", "c", "t", "o", "r">>
ValueOfName == <<"v", "a", "l", "u", "e", "O", "f">>
ProtoName == <<"_", "_", "p", "r", "o", "t", "o", "_", "_">>

\* methods every object literal inherits from Object.prototype
ObjectPrototypeMethods == {ConstructorName, ValueOfName}

\* usedNames[fileName] where usedNames is the object literal {} of line 132:
\* an own property, else the property inherited from Object.prototype;
\* __proto__ is the accessor that returns the prototype
Lookup(own, name) ==
  IF name = ProtoName THEN PrototypeObject
  ELSE IF name \in DOMAIN own THEN own[name]
  ELSE IF name \in ObjectPrototypeMethods THEN FunctionValue
  ELSE Absent

\* usedNames[fileName] = v; the __proto__ setter ignores a value that is
\* neither an object nor null
Store(own, name, v) ==
  IF name = ProtoName THEN own
  ELSE [n \in DOMAIN own \cup {name} |-> IF n = name THEN v ELSE own[n]]

\* if (usedNames[fileName])
IsSet(v) == v.t \in {"function", "object"} \/ (v.t = "number" /\ v.n # 0)

\* the value usedNames[fileName]++ stores
Incremented(v) == IF v.t = "number" THEN Count(v.n + 1) ELSE NaN

\* `${usedNames[fileName]}`
Interpolated(v) ==
  CASE v.t = "number" -> NumberToString(v.n)
    [] v.t = "NaN" -> <<"N", "a", "N">>
    [] v.t = "object" -> <<"[object Object]">>
    [] v.t = "function" -> <<"function Object() { [native code] }">>
    [] OTHER -> <<"u", "n", "d", "e", "f", "i", "n", "e", "d">>

\* folder.file(name, data): an entry of that name is replaced
FolderFile(files, name, data) ==
  IF \E k \in 1..Len(files) : files[k].name = name
  THEN [k \in 1..Len(files) |->
          IF files[k].name = name THEN [name |-> name, data |-> data] ELSE files[k]]
  ELSE Append(files, [name |-> name, data |-> data])

\* lines 134-148: the callback of results.forEach
AddImage(z, img) ==
  LET seen == Lookup(z.usedNames, img.fileName)
      used == IF IsSet(seen) THEN Store(z.usedNames, img.fileName, Incremented(seen))
              ELSE Store(z.usedNames, img.fileName, Count(1))
      fileName == IF IsSet(seen)
                  THEN img.fileName \o <<"_">> \o Interpolated(Lookup(used, img.fileName))
                  ELSE img.fileName
      entry == fileName \o <<".", "p", "n", "g">>
  IN [z EXCEPT !.usedNames = used,
               !.names = Append(@, img.fileName),
               !.entries = Append(@, entry),
               !.files = FolderFile(@, entry, img.url[4])]

RECURSIVE ForEach(_, _)
\* results.forEach(...)
ForEach(z, imgs) ==
  IF imgs = <<>> THEN z ELSE ForEach(AddImage(z, Head(imgs)), Tail(imgs))

\* line 282: the Download ZIP button is rendered once there are results and
\* no run is in progress
ZipShown == Len(results) > 0 /\ ~status.isProcessing

\* lines 123-151, up to the await of zip.generateAsync; zip.folder returns the
\* new folder
downloadAllAsZip ==
  /\ ZipShown
  /\ clicks < MaxClicks
  /\ clicks' = clicks + 1
  /\ IF Len(results) = 0
     THEN UNCHANGED <<logs, zip>>
     ELSE LET z == ForEach([usedNames |-> <<>>, names |-> <<>>, entries |-> <<>>,
                            files |-> <<>>], results)
          IN /\ logs' = addLog(logs, <<"Preparing ZIP download...">>)
             /\ zip' = [stage |-> "generating", names |-> z.names,
                        entries |-> z.entries, files |-> z.files]
  /\ UNCHANGED <<view, status, results, abortRef, tasks, history, lab, client, editor>>

\* lines 151-165: generateAsync resolves and the archive is handed to the
\* browser, or it rejects
zipGenerated ==
  /\ zip.stage = "generating"
  /\ \E resolved \in BOOLEAN :
       /\ zip' = [zip EXCEPT !.stage = IF resolved THEN "downloaded" ELSE "failed"]
       /\ logs' = addLog(logs, IF resolved THEN <<"ZIP download started successfully!">>
                               ELSE <<"Error generating ZIP file.">>)
  /\ UNCHANGED <<view, status, results, abortRef, tasks, history, clicks, lab, client, editor>>

\* file names the sanitizer of line 100 leaves as they are
ZipNames == {<<"a">>, <<"a", "_", "2">>, ConstructorName, ProtoName}

ZipRows == {[desc |-> Str(<<"a">>), sku |-> Str(name)] : name \in ZipNames}

ZipSheets == UNION { [1..n -> ZipRows] : n \in 0..MaxZipRows }

\* lines 26-56 for sheets whose products share names
handleNamesUpload == UploadFrom(ZipSheets)

NextZip ==
  \/ handleNamesUpload
  \/ handleStartBulkGeneration
  \/ RequestReturns
  \/ downloadAllAsZip
  \/ zipGenerated

SpecZip == Init /\ [][NextZip]_vars

\* ------------------------------------------- the entry guard of the start

StartSheet == <<[desc |-> Str(<<"a">>), sku |-> Str(<<"A", "!">>)]>>

StartUrl == <<"data:", "image/png", ";base64,", "QUJD">>

\* the result of an earlier run of StartSheet
StartResult ==
  [id |-> <<1, 0>>, url |-> StartUrl, prompt |-> <<"a">>,
   fileName |-> SafeFileName(<<"A", "!">>, 0), originalName |-> <<"A", "!">>]

\* the activation of an earlier run of StartSheet, suspended at line 97
StartTask ==
  [excelData |-> StartSheet, promptColumn |-> "desc", filenameColumn |-> "sku",
   baselinePrompt |-> <<>>, run |-> 1, i |-> 0, productName |-> <<"A", "!">>,
   fullPrompt |-> <<"a">>]

StartLogs ==
  <<<<"Starting bulk generation...">>,
    <<"Loaded ">> \o NumberToString(1) \o <<" rows from ", FileName>>>>

\* the states handleStartBulkGeneration is invoked in: after or during a run
\* of StartSheet, with the rows still loaded or reset, and with each column
\* selection either made or still the '' of lines 11-12
InitStart ==
  /\ excelData \in {<<>>, StartSheet}
  /\ headers = SheetColumns
  /\ promptColumn \in {"", "desc"}
  /\ filenameColumn \in {"", "sku"}
  /\ baselinePrompt \in Baselines
  /\ results \in {<<>>, <<StartResult>>}
  /\ \E running \in BOOLEAN :
       /\ status = IF running
                   THEN [total |-> 1, completed |-> 0, isProcessing |-> TRUE,
                         currentAction |-> <<"Generating: ", "A", "!">>]
                   ELSE [total |-> 1, completed |-> 1, isProcessing |-> FALSE,
                         currentAction |-> Completed]
       /\ tasks = IF running THEN <<StartTask>> ELSE <<>>
       /\ abortRef \in (IF running THEN BOOLEAN ELSE {FALSE})
       /\ logs = IF running THEN StartLogs
                 ELSE addLog(StartLogs, <<"Success: ", "A", "!">>)
       /\ trace = <<[row |-> 0, prompt |-> <<"a">>,
                     outcome |-> IF running THEN "pending" ELSE "ok"]>>
       /\ exit = IF running THEN "running" ELSE "exhausted"
  /\ job = [excelData |-> StartSheet, promptColumn |-> "desc",
            filenameColumn |-> "sku", baselinePrompt |-> <<>>]
  /\ stopRow = -1
  /\ runNo = 1
  /\ clicks = 0
  /\ lab = NoLab
  /\ InitAux

\* lines 65-97: handleStartBulkGeneration is invoked, whatever the view renders
StartInvoked ==
  /\ clicks = 0
  /\ clicks' = clicks + 1
  /\ StartHandler

NextStart ==
  \/ StartInvoked
  \/ RequestReturns

SpecStart == InitStart /\ [][NextStart]_vars

\* ------------------------------------------------- the calls of the client

MaxParts == 2

\* a part is text, or inline data with or without a media type, or inline
\* data whose payload is empty
PartKinds ==
  {TextPart, ImagePart("image/jpeg", "REVG"), ImagePart("", "QUJD"),
   ImagePart("image/jpeg", "")}

PartLists == UNION { [1..n -> PartKinds] : n \in 0..MaxParts }

\* a candidate has content with parts, or no content, or content without parts
Candidates ==
  {Candidate(parts) : parts \in PartLists}
  \cup {[hasContent |-> FALSE, hasParts |-> FALSE, parts |-> <<>>],
        [hasContent |-> TRUE, hasParts |-> FALSE, parts |-> <<>>]}

CandidateLists == UNION { [1..n -> Candidates] : n \in 0..2 }

\* what ai.models.generateContent does: it throws, or it returns a response
\* without candidates or with a list of them
ClientReplies ==
  {[threw |-> TRUE, response |-> NoResponse], [threw |-> FALSE, response |-> NoResponse]}
  \cup {[threw |-> FALSE, response |-> [hasCandidates |-> TRUE, candidates |-> cs]] :
          cs \in CandidateLists}

\* part_001 lines 47-79: editImageWithGemini: [ok, url, err]
editImageWithGemini(reply) ==
  IF reply.threw THEN [ok |-> FALSE, url |-> Null, err |-> TransportError]
  ELSE LET imageUrl == extractImageFromResponse(reply.response) IN
       IF imageUrl = Null THEN [ok |-> FALSE, url |-> Null, err |-> NoImageError]
       ELSE [ok |-> TRUE, url |-> imageUrl, err |-> ""]

InitClient ==
  /\ InitBulk
  /\ lab = NoLab
  /\ zip = NoZip
  /\ editor = NoEditor
  /\ client \in {[NoClient EXCEPT !.stage = "input", !.reply = reply] :
                  reply \in ClientReplies}

\* part_001 lines 84-106 with client.reply as the outcome of the remote call
generateCalled ==
  /\ client.stage = "input"
  /\ client' = [client EXCEPT !.stage = "returned", !.op = "generate",
                              !.out = generateImageWithGemini(client.reply)]
  /\ UNCHANGED <<view, status, results, logs, abortRef, tasks, history, clicks,
                 lab, zip, editor>>

\* part_001 lines 47-79 with client.reply as the outcome of the remote call
editCalled ==
  /\ client.stage = "input"
  /\ client' = [client EXCEPT !.stage = "returned", !.op = "edit",
                              !.out = editImageWithGemini(client.reply)]
  /\ UNCHANGED <<view, status, results, logs, abortRef, tasks, history, clicks,
                 lab, zip, editor>>

NextClient ==
  \/ generateCalled
  \/ editCalled

SpecClient == InitClient /\ [][NextClient]_vars

\* ----------------------------------------------------- the image editor

MaxEditorEvents == 5

\* files the user can pick or drop; the last one is not an image
EditorFiles == {"photo.png", "scan.jpg"}
DroppedFiles == EditorFiles \cup {"notes.txt"}

\* file.type.startsWith('image/')
IsImage(file) == file \in EditorFiles

EditorPrompts == {<<>>, <<" ">>, <<"s", "n", "o", "w">>}

DefaultEditError == "Failed to generate image. Please try again."

\* part_000 lines 17-24 and 34-41: setSourceFile and the FileReader that is
\* started for the file
StartReading(e, file) ==
  [e EXCEPT !.sourceFile = file, !.readers = Append(@, file)]

\* part_000 line 124: the file input is rendered while no source image is shown
handleFileSelect ==
  /\ editor.sourceImage = ""
  /\ editor.events < MaxEditorEvents
  /\ \E file \in EditorFiles :
       editor' = [StartReading(editor, file) EXCEPT !.events = @ + 1]
  /\ UNCHANGED <<view, status, results, logs, abortRef, tasks, history, clicks,
                 lab, zip, client>>

\* part_000 lines 28-44
handleDrop ==
  /\ editor.events < MaxEditorEvents
  /\ \E file \in DroppedFiles :
       editor' = [(IF IsImage(file) THEN StartReading(editor, file) ELSE editor)
                  EXCEPT !.events = @ + 1]
  /\ UNCHANGED <<view, status, results, logs, abortRef, tasks, history, clicks,
                 lab, zip, client>>

\* part_000 lines 19-23 and 36-40: reader.onload
readerLoaded ==
  /\ \E k \in 1..Len(editor.readers) :
       editor' = [editor EXCEPT !.readers = Remove(@, k),
                                !.sourceImage = editor.readers[k],
                                !.generatedImage = Null,
                                !.shown = 0,
                                !.error = ""]
  /\ UNCHANGED <<view, status, results, logs, abortRef, tasks, history, clicks,
                 lab, zip, client>>

\* part_000 lines 69-75; the Clear button is rendered while a source image is
\* shown (line 91)
clearSource ==
  /\ editor.sourceImage # ""
  /\ editor.events < MaxEditorEvents
  /\ editor' = [editor EXCEPT !.sourceImage = "", !.sourceFile = "",
                              !.generatedImage = Null, !.shown = 0,
                              !.prompt = <<>>, !.events = @ + 1]
  /\ UNCHANGED <<view, status, results, logs, abortRef, tasks, history, clicks,
                 lab, zip, client>>

\* part_000 line 135: onChange of the prompt field
setPrompt ==
  /\ editor.events < MaxEditorEvents
  /\ \E p \in EditorPrompts \ {editor.prompt} :
       editor' = [editor EXCEPT !.prompt = p, !.events = @ + 1]
  /\ UNCHANGED <<view, status, results, logs, abortRef, tasks, history, clicks,
                 lab, zip, client>>

\* part_000 lines 51-58, up to the await of fileToBase64
handleGenerate(e) ==
  IF e.sourceFile = "" \/ Trim(e.prompt) = <<>> THEN e
  ELSE [e EXCEPT !.isProcessing = TRUE,
                 !.error = "",
                 !.started = @ + 1,
                 !.tasks = Append(@, [id |-> e.started + 1, pc |-> "reading",
                                      file |-> e.sourceFile, prompt |-> e.prompt])]

\* part_000 line 142: disabled={!sourceImage || !prompt.trim() || isProcessing}
GenerateDisabled ==
  editor.sourceImage = "" \/ Trim(editor.prompt) = <<>> \/ editor.isProcessing

\* part_000 lines 140-141: onClick of the Generate button
generateClicked ==
  /\ ~GenerateDisabled
  /\ editor.events < MaxEditorEvents
  /\ editor' = [handleGenerate(editor) EXCEPT !.events = @ + 1]
  /\ UNCHANGED <<view, status, results, logs, abortRef, tasks, history, clicks,
                 lab, zip, client>>

\* part_000 line 138: onKeyDown of the prompt field, e.key === 'Enter'
enterPressed ==
  /\ editor.events < MaxEditorEvents
  /\ editor' = [handleGenerate(editor) EXCEPT !.events = @ + 1]
  /\ UNCHANGED <<view, status, results, logs, abortRef, tasks, history, clicks,
                 lab, zip, client>>

\* part_000 lines 58-60 and 62-66: fileToBase64 resolves and the edit request
\* is sent, or it rejects with the reader's error event, which has no message
fileRead ==
  /\ \E k \in 1..Len(editor.tasks), resolved \in BOOLEAN :
       /\ editor.tasks[k].pc = "reading"
       /\ editor' = IF resolved
                    THEN [editor EXCEPT !.tasks[k].pc = "editing"]
                    ELSE [editor EXCEPT !.tasks = Remove(@, k),
                                        !.error = DefaultEditError,
                                        !.isProcessing = FALSE]
  /\ UNCHANGED <<view, status, results, logs, abortRef, tasks, history, clicks,
                 lab, zip, client>>

\* part_000 lines 60-66: editImageWithGemini settles
editReturns ==
  /\ \E k \in 1..Len(editor.tasks), reply \in Replies :
       LET t == editor.tasks[k]
           r == editImageWithGemini(reply)
       IN /\ t.pc = "editing"
          /\ editor' = IF r.ok
                       THEN [editor EXCEPT !.tasks = Remove(@, k),
                                           !.generatedImage = r.url,
                                           !.shown = t.id,
                                           !.shownAt = editor.started,
                                           !.isProcessing = FALSE]
                       ELSE [editor EXCEPT !.tasks = Remove(@, k),
                                           !.error = r.err,
                                           !.isProcessing = FALSE]
  /\ UNCHANGED <<view, status, results, logs, abortRef, tasks, history, clicks,
                 lab, zip, client>>

NextEditor ==
  \/ handleFileSelect
  \/ handleDrop
  \/ readerLoaded
  \/ clearSource
  \/ setPrompt
  \/ generateClicked
  \/ enterPressed
  \/ fileRead
  \/ editReturns

SpecEditor == Init /\ [][NextEditor]_vars

\* ------------------------------------------------------------------ claims

\* the latest run has left its loop
Ended == exit \in {"exhausted", "stopped"}

\* the rows the latest run has dealt with so far
Processed == SelectSeq(trace, LAMBDA e : e.outcome # "pending")

\* completed counts each row the run has dealt with exactly once, whatever
\* its outcome, and total is the number of rows of the run
CompletedCountsRows ==
  runNo > 0 => /\ status.completed = Len(Processed)
               /\ status.total = Len(job.excelData)

\* C1 as stated: completed goes up by exactly one per processed row whatever
\* the outcome, and in every run it reaches total.
C1_Original ==
  /\ CompletedCountsRows
  /\ Ended => status.completed = status.total

\* C1 as amended: completed goes up by exactly one per processed row whatever
\* the outcome; a run whose loop visits every row ends with completed = total
\* and reaches that value once (it stays there for the rest of the run); a run
\* that a cancellation request stops at an iteration check ends with
\* completed < total.
C1_Amended ==
  /\ [](/\ CompletedCountsRows
        /\ exit = "exhausted" => status.completed = status.total
        /\ exit = "stopped" => status.completed < status.total)
  /\ [][(runNo' = runNo /\ status.completed = status.total)
          => status'.completed = status'.total]_vars

\* a two-row run that skipped its first row, failed on its second and came to
\* its end
C1_Witness ==
  /\ exit = "exhausted"
  /\ Len(trace) = 2
  /\ trace[1].outcome = "skipped"
  /\ trace[2].outcome = "failed"
  /\ status.completed = 2

Range(seq) == {seq[k] : k \in 1..Len(seq)}

\* the log line of a failed row i
IsFailureLogFor(m, i) ==
  LET n == NumberToString(i + 1) IN
  /\ Len(m) > 1 + Len(n)
  /\ SubSeq(m, 1, 1 + Len(n)) = <<"Failed row ">> \o n

\* C2: a stop request made while row stopRow is in flight leaves that request
\* running to its outcome, which is recorded (a result appended or a failure
\* logged, and the row counted), and no row after stopRow is reached.
C2_StopFinishesCurrentRow ==
  /\ [](stopRow # -1 =>
          /\ \A k \in 1..Len(trace) : trace[k].row = k - 1 /\ trace[k].row <= stopRow
          /\ \A k \in 1..Len(tasks) : tasks[k].i <= stopRow
          /\ ~Ended => /\ Len(tasks) = 1
                       /\ tasks[1].i = stopRow
                       /\ trace[Len(trace)].outcome = "pending"
          /\ Ended => /\ Len(trace) = stopRow + 1
                      /\ \A k \in 1..Len(trace) : trace[k].outcome # "pending"
                      /\ trace[stopRow + 1].outcome \in {"ok", "failed"}
                      /\ status.completed = stopRow + 1)
  /\ [][(stopRow # -1 /\ ~Ended /\ Ended') =>
          /\ trace'[stopRow + 1].outcome = "ok" =>
               /\ Len(results') = Len(results) + 1
               /\ results'[Len(results')].id = <<runNo, stopRow>>
          /\ trace'[stopRow + 1].outcome = "failed" =>
               /\ results' = results
               /\ \E m \in Range(logs') : IsFailureLogFor(m, stopRow)]_vars

\* stop was requested while row 0 of a two-row run was in flight; the request
\* returned an image and the run ended without reaching row 1
C2_Witness ==
  /\ stopRow = 0
  /\ exit = "stopped"
  /\ Len(job.excelData) = 2
  /\ Len(trace) = 1
  /\ trace[1].outcome = "ok"
  /\ Len(results) = 1

\* C3: when a run has ended, isProcessing is false and currentAction is
\* "Stopped" if a stop was requested during the run and "Completed!" if not.
C3_FinalStatus ==
  Ended => /\ ~status.isProcessing
           /\ status.currentAction = IF stopRow # -1 THEN Stopped ELSE Completed

\* a cell that is empty or holds only white space
IsBlank(v) ==
  \/ v.t = "undefined"
  \/ v.t = "string" /\ \A k \in 1..Len(v.s) : v.s[k] \in WhiteSpace

\* C4: a row whose prompt cell is empty or white space only gets no
\* generation request and no result, and is counted in completed.
C4_BlankPromptSkipped ==
  runNo > 0 =>
    /\ CompletedCountsRows
    /\ \A k \in 1..Len(trace) :
         /\ trace[k].row = k - 1
         /\ IsBlank(Cell(job.excelData[k], job.promptColumn)) =>
              /\ trace[k].outcome = "skipped"
              /\ \A r \in Range(results) : r.id # <<runNo, k - 1>>
              /\ \A t \in Range(tasks) : t.i # k - 1

\* a run came to its end after skipping a row whose prompt cell holds white
\* space only
C4_Witness ==
  /\ exit = "exhausted"
  /\ \E k \in 1..Len(trace) :
       /\ trace[k].outcome = "skipped"
       /\ Cell(job.excelData[k], job.promptColumn).t = "string"
       /\ Cell(job.excelData[k], job.promptColumn).s # <<>>
  /\ status.completed = status.total

\* C5: when the request of a row fails, a failure line is logged, no result
\* is appended for the row, and the run goes on with the next row: only a
\* stop request ends a run before its last row.
C5_FailureIsPerRow ==
  /\ [](/\ exit = "stopped" => stopRow # -1
        /\ exit = "exhausted" => Len(trace) = Len(job.excelData)
        /\ \A k \in 1..Len(trace) :
             trace[k].outcome = "failed" =>
               \A r \in Range(results) : r.id # <<runNo, trace[k].row>>)
  /\ [][\A k \in 1..Len(trace) :
          (runNo' = runNo /\ trace[k].outcome = "pending" /\ trace'[k].outcome = "failed") =>
            /\ results' = results
            /\ \E j \in 1..Len(logs') :
                 /\ IsFailureLogFor(logs'[j], trace[k].row)
                 /\ SubSeq(logs', j + 1, Len(logs')) = logs
            /\ ~abortRef => /\ exit' # "stopped"
                            /\ tasks' # <<>> \/ exit' = "exhausted"]_vars

\* the request of row 0 failed and the run went on to get an image for row 1
C5_Witness ==
  /\ exit = "exhausted"
  /\ Len(trace) = 2
  /\ trace[1].outcome = "failed"
  /\ trace[2].outcome = "ok"
  /\ Len(results) = 1

\* C6: completed stays between 0 and total, and never goes down within a run.
C6_CompletedBounded ==
  /\ [](0 <= status.completed /\ status.completed <= status.total)
  /\ [][runNo' = runNo => status'.completed >= status.completed]_vars

\* a two-row run reached its total although the rows were reset meanwhile
C6_Witness ==
  /\ status.total = 2
  /\ status.completed = 2
  /\ excelData = <<>>

\* C7: at most one request is in flight, a row's request is issued only when
\* the one before it has settled, and no row gets two requests in a run.
C7_Sequential ==
  /\ Len(tasks) <= 1
  /\ \A j, k \in 1..Len(trace) : j < k => trace[j].row < trace[k].row
  /\ \A k \in 1..Len(trace) :
       trace[k].outcome = "pending" =>
         /\ k = Len(trace)
         /\ tasks # <<>>
         /\ tasks[1].i = trace[k].row
         /\ tasks[1].run = runNo
  /\ tasks # <<>> => /\ trace # <<>>
                     /\ trace[Len(trace)].outcome = "pending"

\* the request of row 1 is in flight after the one of row 0 has settled
C7_Witness ==
  /\ Len(tasks) = 1
  /\ tasks[1].i = 1
  /\ Len(trace) = 2
  /\ trace[1].outcome \in {"ok", "failed"}

\* C8: rows are processed in ingestion order and the results are in the
\* order of their rows, one result per row at most.
C8_ResultsInRowOrder ==
  /\ \A k \in 1..Len(trace) : trace[k].row = k - 1
  /\ \A k \in 1..Len(results) : results[k].id[1] = runNo
  /\ \A j, k \in 1..Len(results) : j < k => results[j].id[2] < results[k].id[2]

\* both rows of a run have produced a result
C8_Witness ==
  /\ Len(results) = 2
  /\ results[1].id[2] = 0
  /\ results[2].id[2] = 1

\* the prompt the claim describes for row i of the latest run
ComposedPrompt(i) ==
  LET rowPrompt == ProductPrompt(job.excelData[i + 1], job.promptColumn) IN
  IF Len(job.baselinePrompt) > 0
  THEN job.baselinePrompt \o <<".", " ">> \o rowPrompt
  ELSE rowPrompt

\* C9: the prompt sent for a row, and stored in its result, is the baseline,
\* ". " and the row prompt when the baseline is non-empty, and the row prompt
\* alone when it is empty.
C9_PromptComposition ==
  runNo > 0 =>
    /\ \A k \in 1..Len(trace) :
         trace[k].outcome # "skipped" => trace[k].prompt = ComposedPrompt(trace[k].row)
    /\ \A t \in Range(tasks) : t.fullPrompt = ComposedPrompt(t.i)
    /\ \A r \in Range(results) : r.prompt = ComposedPrompt(r.id[2])

\* a result made with the baseline "st" for the row prompt "a"
C9_Witness ==
  \E r \in Range(results) : r.prompt = <<"s", "t", ".", " ", "a">>

\* C10: the stored fileName is not empty and sanitizing it again gives the
\* same name.
C10_SanitizeIdempotent ==
  /\ lab.stage \in {"stored", "again"} => lab.fileName # <<>>
  /\ lab.stage = "again" => lab.again = lab.fileName

\* a white-space name of row 12 was stored under the fallback name and
\* sanitized again
C10_Witness ==
  /\ lab.stage = "again"
  /\ lab.cell = Str(<<" ", "\t">>)
  /\ lab.i = 12
  /\ lab.fileName = <<"i", "m", "a", "g", "e", "-", "1", "2">>

\* the entry name the stated policy gives the k-th of names
PolicyEntry(names, k) ==
  LET n == Cardinality({j \in 1..k : names[j] = names[k]})
  IN (IF n = 1 THEN names[k] ELSE names[k] \o <<"_">> \o NumberToString(n))
     \o <<".", "p", "n", "g">>

\* C11: in the archive downloadAllAsZip builds, the first result carrying a
\* fileName is stored as <fileName>.png and the N-th result carrying it
\* (N >= 2, in result-list order) as <fileName>_<N>.png, for every fileName
\* the sanitizer can produce.
C11_SuffixPolicy ==
  zip.stage # "off" =>
    /\ Len(zip.entries) = Len(zip.names)
    /\ \A k \in 1..Len(zip.names) : zip.entries[k] = PolicyEntry(zip.names, k)

\* C12: the entry names downloadAllAsZip writes are pairwise distinct, so
\* the archive holds as many entries as there are results and no image
\* overwrites another.
C12_EntriesDistinct ==
  zip.stage # "off" =>
    /\ \A j, k \in 1..Len(zip.entries) : j # k => zip.entries[j] # zip.entries[k]
    /\ Len(zip.files) = Len(zip.names)

\* C13: when the row list is empty, or the prompt column or the filename
\* column is unset, an invocation of the start action leaves status, results,
\* logs and the cancellation flag as they are and issues no request.
C13_GuardedStartIsNoOp ==
  [][(/\ clicks' = clicks + 1
      /\ (excelData = <<>> \/ promptColumn = "" \/ filenameColumn = ""))
     => /\ status' = status
        /\ results' = results
        /\ logs' = logs
        /\ abortRef' = abortRef
        /\ tasks' = tasks
        /\ trace' = trace]_vars

\* the start action has been invoked during a run whose cancellation was
\* requested, with rows loaded and no prompt column: everything is as before
C13_Witness ==
  /\ clicks = 1
  /\ excelData # <<>>
  /\ promptColumn = ""
  /\ abortRef
  /\ status.isProcessing
  /\ results = <<StartResult>>
  /\ tasks = <<StartTask>>

\* the content parts of the first candidate of the reply under test
FirstCandidateParts ==
  LET r == client.reply.response IN
  IF client.reply.threw \/ ~r.hasCandidates \/ r.candidates = <<>> THEN <<>>
  ELSE IF r.candidates[1].hasContent /\ r.candidates[1].hasParts
       THEN r.candidates[1].parts ELSE <<>>

\* the positions of the parts that carry inline image data
Carriers ==
  {k \in 1..Len(FirstCandidateParts) :
     FirstCandidateParts[k].hasInlineData /\ FirstCandidateParts[k].data # ""}

\* C14: a client operation returns the payload of the first part of the
\* first candidate that carries inline image data, with the media type the
\* part declares or image/png when it declares none; with no candidates or
\* no such part (or when the remote call throws) the operation fails with
\* an error and returns no image.
C14_FirstInlinePart ==
  client.stage = "returned" =>
    IF Carriers # {}
    THEN LET k == CHOOSE c \in Carriers : \A d \in Carriers : c <= d
             part == FirstCandidateParts[k]
         IN /\ client.out.ok
            /\ client.out.url =
                 <<"data:", IF part.mimeType = "" THEN "image/png" ELSE part.mimeType,
                   ";base64,", part.data>>
    ELSE /\ ~client.out.ok
         /\ client.out.url = Null
         /\ client.out.err # ""

\* an edit call whose reply holds text and then an image without media type
\* in its first candidate, and another image in its second, has returned
C14_Witness ==
  /\ client.stage = "returned"
  /\ client.op = "edit"
  /\ client.reply.response.candidates =
       <<Candidate(<<TextPart, ImagePart("", "QUJD")>>),
         Candidate(<<ImagePart("image/jpeg", "REVG")>>)>>
  /\ client.out.url = <<"data:", "image/png", ";base64,", "QUJD">>

\* the product name the configuration of the latest run gives its row i
JobName(i) ==
  JsString(Or(Cell(job.excelData[i + 1], job.filenameColumn), Str(ImageName(i))))

\* the row prompt the configuration of the latest run gives its row i
JobPrompt(i) == JsString(Or(Cell(job.excelData[i + 1], job.promptColumn), Str(<<>>)))

C16_NoRowsNoResults == excelData = <<>> => results = <<>>

\* C17: in the image editor at most one activation of handleGenerate is
\* outstanding, isProcessing is true exactly while one is, and the result
\* that is displayed came from the request started last, whether Generate
\* was clicked or Enter was pressed.
C17_SingleRequest ==
  /\ Len(editor.tasks) <= 1
  /\ editor.isProcessing <=> editor.tasks # <<>>
  /\ editor.shown # 0 => editor.shown = editor.shownAt

====
